---- MODULE Spec2Model ----
(***************************************************************************)
(* thread-tidy: the incremental harvesting and merge engine of             *)
(* scripts/fetch_saved_posts.py.                                           *)
(*                                                                         *)
(* Three specifications:                                                   *)
(*   SpecMerge  merge_posts as a pure function, applied to every pair of   *)
(*              bounded record lists (archive A, batch B).                 *)
(*   Spec       main(): navigation, load of the archive, the scroll loop   *)
(*              of scroll_and_extract_posts with its mid-run saves, and    *)
(*              the final save.                                            *)
(*   SpecClassify  classify_posts() of scripts/classify.py on the same     *)
(*              archive file, with one save_posts_to_json of a harvest run *)
(*              going on at the same time.                                 *)
(*                                                                         *)
(* Encoding of values.                                                     *)
(*   post_id   permalink ids are the positive integers 1..MaxId; the id    *)
(*             "unknown_<timestamp>" synthesised at time t is -t.          *)
(*   saved_at  ISO-8601 strings are natural numbers ordered as the strings *)
(*             are; 0 is the empty string.  A record may lack the field.   *)
(*   The wall clock is observable only through the records that are kept,  *)
(*   so `now` advances once per kept record (an order-preserving renaming  *)
(*   of the strictly increasing timestamps); the records of the archive a  *)
(*   run starts from carry the ranks below it.  `sec`, the clock in whole  *)
(*   seconds, is observable only through the names of the backups.         *)
(*                                                                         *)
(* The page.  The saved-posts page renders a growing prefix of the feed    *)
(* (`loaded` containers so far); `visible` is the window of rendered       *)
(* containers that are in the document.  It changes only during the first  *)
(* MaxActive rounds of a run; after that every round finds the same        *)
(* containers; until round MaxEventRound it can also lose all of them.     *)
(*                                                                         *)
(* The file system.  public/posts.json is missing, a JSON document, or a   *)
(* torn document (opened for writing and not completely written).  A save  *)
(* can meet an I/O error at the load of the archive, at the copy of the    *)
(* backup, at open() or inside json.dump(); the first MaxFaultySaves saves *)
(* of a run can meet one.  The                                             *)
(* process can be terminated inside the write of a mid-run save and, from  *)
(* the first mid-run save until round MaxEventRound, between two rounds.   *)
(***************************************************************************)
EXTENDS Integers, Sequences, FiniteSets, TLC

\* ---- bounds of the model ------------------------------------------------
MaxId == 2
MaxMergeId == 2
MaxTime == 2
MaxLen == 3
MaxArchive == 1
MaxActive == 4
MaxFaultySaves == 1
MaxEventRound == 10
MaxPosts == 12
MaxLabelled == 1

\* ---- SCROLL_CONFIG ------------------------------------------------------
smart_mode_max == 50
full_mode_max == 100
no_new_posts_limit == 20
save_interval == 10

\* ---- BATCH_CONFIG -------------------------------------------------------
batch_size == 10

VARIABLES
    \* SpecMerge: harness around merge_posts
    mA, mB, mR, mRR, mpc,
    \* Spec: main() and scroll_and_extract_posts
    pc, archive, backups, sec, now, loaded, visible,
    existing_post_ids, max_scrolls, scroll_count, no_new_posts_count,
    posts, seen_post_ids,
    \* history of the run (not program state): the last round that appended
    \* a post, the rounds since a container was last rendered, the ids
    \* classified as existing-hits, why the loop ended, the calls of
    \* save_posts_to_json, the backups they made, how the latest call ended,
    \* the length of the accumulator at the latest completed mid-run save,
    \* the archive file the run started from, whether a save has met an
    \* archive file that it could not load, the saves that met an I/O error
    \* or were cut short
    lastProductive, quiet, hitIds, stopReason,
    saves, persists, lastSave, checkpointLen, archive0, loadFailed, ioErrors,
    \* which run of main() over the same archive file this is, and how many
    \* containers of the feed the page can render in it
    run, feed_len,
    \* SpecClassify: classify_posts and process_batches, and the local
    \* existing_posts of a save_posts_to_json that runs at the same time
    cpc, all_posts, unclassified_posts, batch_i, successful_batches,
    failed_batches, hpc, hExisting,
    \* history: the ids that batches counted as successful have labelled in
    \* this run, and who wrote the archive file last
    labelled, lastWriter

mergeVars == <<mA, mB, mR, mRR, mpc>>
runVars == <<run, feed_len>>
classifyVars == <<cpc, all_posts, unclassified_posts, batch_i,
                  successful_batches, failed_batches, hpc, hExisting,
                  labelled, lastWriter>>
mainVars == <<pc, archive, backups, sec, now, loaded, visible,
              existing_post_ids, max_scrolls, scroll_count,
              no_new_posts_count, posts, seen_post_ids, lastProductive,
              quiet, hitIds,
              stopReason, saves, persists, lastSave, checkpointLen,
              archive0, loadFailed, ioErrors, runVars>>
vars == <<mergeVars, mainVars, classifyVars>>
\* what no step of a run of main() changes
otherVars == <<mergeVars, runVars, classifyVars>>

\* ---- helpers ------------------------------------------------------------
Ids == 1..MaxId
MergeIds == 1..MaxMergeId
Times == 0..MaxTime

Range(s) == {s[i] : i \in 1..Len(s)}

SeqsUpTo(S, n) == UNION {[1..k -> S] : k \in 0..n}

\* public/posts.json: missing, a JSON document holding the list `data`, or a
\* torn document, which json.load rejects
NoFile == [kind |-> "missing", data |-> <<>>]
Document(ps) == [kind |-> "json", data |-> ps]
Torn == [kind |-> "torn", data |-> <<>>]

\* post.get("post_id")
PostId(p) == p.post_id

IdsOf(s) == {PostId(s[i]) : i \in 1..Len(s)}

\* lambda x: x.get("saved_at", "")
SavedAtKey(p) == IF "saved_at" \in DOMAIN p THEN p.saved_at ELSE 0

\* list.sort(key=..., reverse=True): stable, descending.  InsertDesc puts p
\* behind every element whose key is >= p's key, so equal keys keep their
\* original relative order.
InsertDescReversingTies(s, p) ==
    LET before == SelectSeq(s, LAMBDA q : SavedAtKey(q) > SavedAtKey(p))
        after == SelectSeq(s, LAMBDA q : SavedAtKey(q) <= SavedAtKey(p))
    IN before \o <<p>> \o after

InsertDesc(s, p) ==
    LET before == SelectSeq(s, LAMBDA q : SavedAtKey(q) >= SavedAtKey(p))
        after == SelectSeq(s, LAMBDA q : SavedAtKey(q) < SavedAtKey(p))
    IN before \o <<p>> \o after

RECURSIVE SortBySavedAtDesc(_)
SortBySavedAtDesc(s) ==
    IF s = <<>> THEN <<>>
    ELSE InsertDesc(SortBySavedAtDesc(SubSeq(s, 1, Len(s) - 1)), s[Len(s)])

\* variants of merge_posts with a plausible slip each: the duplicate filter
\* inverted, the batch record winning over the archive's, the duplicate
\* filter left out, the sort left out
merge_posts_filter_inverted(existing_posts, new_posts) ==
    LET existing_ids == IdsOf(existing_posts)
        unique_new_posts ==
            SelectSeq(new_posts, LAMBDA p : PostId(p) \in existing_ids)
    IN SortBySavedAtDesc(existing_posts \o unique_new_posts)

merge_posts_batch_wins(existing_posts, new_posts) ==
    LET new_ids == IdsOf(new_posts)
        kept == SelectSeq(existing_posts, LAMBDA p : PostId(p) \notin new_ids)
    IN SortBySavedAtDesc(kept \o new_posts)

merge_posts_unfiltered(existing_posts, new_posts) ==
    SortBySavedAtDesc(existing_posts \o new_posts)

merge_posts_unsorted(existing_posts, new_posts) ==
    LET existing_ids == IdsOf(existing_posts)
        unique_new_posts ==
            SelectSeq(new_posts, LAMBDA p : PostId(p) \notin existing_ids)
    IN existing_posts \o unique_new_posts

\* merge_posts(existing_posts, new_posts).  Every sort key is a string (or the
\* default ""), and comparing strings raises neither TypeError nor ValueError,
\* so the except branch (sort by post_id) is not entered on these records.
merge_posts(existing_posts, new_posts) ==
    LET existing_ids == IdsOf(existing_posts)
        unique_new_posts ==
            SelectSeq(new_posts, LAMBDA p : PostId(p) \notin existing_ids)
        merged_posts == existing_posts \o unique_new_posts
    IN SortBySavedAtDesc(merged_posts)

\* ---- SpecMerge ----------------------------------------------------------
\* records a JSON archive or a batch can hold: with or without saved_at
MergeRecords ==
    [post_id : MergeIds, saved_at : Times] \cup [post_id : MergeIds]

\* every archive A and batch B of at most MaxLen records together
MergeInit ==
    /\ mA \in SeqsUpTo(MergeRecords, MaxLen)
    /\ mB \in SeqsUpTo(MergeRecords, MaxLen - Len(mA))
    /\ mR = <<>>
    /\ mRR = <<>>
    /\ mpc = "input"
    /\ pc = "idle"
    /\ archive = NoFile
    /\ backups = <<>>
    /\ sec = 0
    /\ now = 0
    /\ loaded = 0
    /\ visible = {}
    /\ existing_post_ids = {}
    /\ max_scrolls = 0
    /\ scroll_count = 0
    /\ no_new_posts_count = 0
    /\ posts = <<>>
    /\ seen_post_ids = {}
    /\ lastProductive = 0
    /\ quiet = 0
    /\ hitIds = {}
    /\ stopReason = "none"
    /\ saves = 0
    /\ persists = 0
    /\ lastSave = "none"
    /\ checkpointLen = 0
    /\ archive0 = archive
    /\ loadFailed = FALSE
    /\ ioErrors = 0
    /\ run = 1
    /\ feed_len = 0
    /\ cpc = "idle"
    /\ all_posts = <<>>
    /\ unclassified_posts = <<>>
    /\ batch_i = 0
    /\ successful_batches = 0
    /\ failed_batches = 0
    /\ hpc = "idle"
    /\ hExisting = <<>>
    /\ labelled = {}
    /\ lastWriter = "none"

\* mR := merge_posts(A, B)
Merge ==
    /\ mpc = "input"
    /\ mR' = merge_posts(mA, mB)
    /\ mpc' = "merged"
    /\ UNCHANGED <<mA, mB, mRR, mainVars, classifyVars>>

\* mRR := merge_posts(mR, [])
MergeAgain ==
    /\ mpc = "merged"
    /\ mRR' = merge_posts(mR, <<>>)
    /\ mpc' = "remerged"
    /\ UNCHANGED <<mA, mB, mR, mainVars, classifyVars>>

MergeNext == Merge \/ MergeAgain

SpecMerge == MergeInit /\ [][MergeNext]_vars

\* ---- properties of merge_posts -----------------------------------------
Count(s, r) == Cardinality({i \in 1..Len(s) : s[i] = r})

HasDuplicateIds(s) ==
    \E i, j \in 1..Len(s) : i < j /\ PostId(s[i]) = PostId(s[j])

IsSortedDesc(s) ==
    \A i \in 1..(Len(s) - 1) : SavedAtKey(s[i]) >= SavedAtKey(s[i + 1])

\* C1 (as claimed): for all archives A and batches B, including ones that
\* repeat an id, merge_posts(A, B) holds no two records with the same post_id.
C1_NoDuplicateIds ==
    mpc # "input" => ~HasDuplicateIds(mR)

\* C2: the set of post_ids of merge_posts(A, B) is ids(A) union ids(B).
C2_IdsAreUnion ==
    mpc # "input" => IdsOf(mR) = IdsOf(mA) \cup IdsOf(mB)

C2_Witness ==
    /\ mpc = "merged"
    /\ IdsOf(mA) \cap IdsOf(mB) # {}
    /\ IdsOf(mB) \ IdsOf(mA) # {}

\* C3: for an id present in both A and B, merge_posts(A, B) holds exactly the
\* archive's records of that id, all fields unchanged; the batch's record of
\* that id is dropped.
C3_ArchiveRecordKept ==
    mpc # "input" =>
        \A r \in Range(mA) \cup Range(mB) \cup Range(mR) :
            PostId(r) \in IdsOf(mA) \cap IdsOf(mB) =>
                Count(mR, r) = Count(mA, r)

C3_Witness ==
    /\ mpc = "merged"
    /\ \E a \in Range(mA), b \in Range(mB) :
           /\ PostId(a) = PostId(b)
           /\ SavedAtKey(a) < SavedAtKey(b)
           /\ a \in Range(mR)
           /\ b \notin Range(mR)

\* C4: merge_posts(merge_posts(A, B), []) = merge_posts(A, B), as sequences.
C4_Idempotent ==
    mpc = "remerged" => mRR = mR

C4_Witness ==
    /\ mpc = "remerged"
    /\ mB # <<>>
    /\ \E i \in 1..(Len(mR) - 1) :
           /\ SavedAtKey(mR[i]) = SavedAtKey(mR[i + 1])
           /\ mR[i] # mR[i + 1]

\* C5: merge_posts(A, B) is ordered by saved_at descending, a missing saved_at
\* counting as the empty string.
C5_SortedBySavedAtDesc ==
    mpc # "input" => IsSortedDesc(mR)

C5_Witness ==
    /\ mpc = "merged"
    /\ ~IsSortedDesc(mA \o mB)
    /\ Len(mR) >= 2
    /\ \E r \in Range(mR) : "saved_at" \notin DOMAIN r
    /\ \E r \in Range(mR) : SavedAtKey(r) > 0

\* ---- the page ------------------------------------------------------------
\* What a container of the page can be for the code:
\*   link    holds a permalink a[href*="/post/"] whose id segment is `id`
\*   nolink  holds a content span but no link from which an id can be taken
\*   broken  passes the container filter, but extract_post_data raises on it
\*   chrome  holds neither a post link nor a content span (page furniture)
Link(i) == [kind |-> "link", id |-> i]
NoLink == [kind |-> "nolink", id |-> 0]
Broken == [kind |-> "broken", id |-> 0]
Chrome == [kind |-> "chrome", id |-> 0]

\* The saved-posts feed, in document order: permalinked posts, one container
\* without a permalink and one on which extraction raises.
Feed ==
    [i \in 1..MaxId |-> Link(i)] \o <<NoLink, Broken>>

\* "unknown_<timestamp>"
UnknownId(t) == 0 - t

\* ---- extraction ----------------------------------------------------------
\* extract_post_url_and_id: the id segment of the permalink, else an id made
\* from the current time
extract_post_url_and_id(e, t) ==
    IF e.kind = "link" THEN e.id ELSE UnknownId(t)

\* extract_post_data: <<record>>, or << >> for None
extract_post_data(e, t) ==
    IF e.kind = "broken" THEN <<>>
    ELSE <<[post_id |-> extract_post_url_and_id(e, t),
            saved_at |-> t,
            categories |-> <<>>]>>

\* collect_post_elements_on_page: the containers of the first selector that
\* matches, without those that hold neither a post link nor a content span
collect_post_elements_on_page(elements) ==
    SelectSeq(elements, LAMBDA e : e.kind # "chrome")

\* one iteration of the for loop of extract_posts_from_elements on element e;
\* st carries new_posts, existing_found_count, seen_post_ids and the clock.
\* The basic validation of line 348 always passes: post_id is never empty.
extract_step_no_existing_check(st, e, existing) ==
    LET data == extract_post_data(e, st.now)
    IN IF data # <<>> /\ data[1].post_id \notin st.seen_post_ids
       THEN [st EXCEPT !.new_posts = Append(@, data[1]),
                       !.seen_post_ids = @ \cup {data[1].post_id},
                       !.now = @ + 1]
       ELSE st

\* a variant that appends a record without putting its id into the seen-set
extract_step_seen_not_updated(st, e, existing) ==
    LET data == extract_post_data(e, st.now)
    IN IF data # <<>> /\ data[1].post_id \notin st.seen_post_ids
       THEN IF existing # {} /\ data[1].post_id \in existing
            THEN [st EXCEPT !.existing_found_count = @ + 1]
            ELSE [st EXCEPT !.new_posts = Append(@, data[1]),
                            !.now = @ + 1]
       ELSE st

extract_step(st, e, existing) ==
    LET data == extract_post_data(e, st.now)
    IN IF data # <<>> /\ data[1].post_id \notin st.seen_post_ids
       THEN IF existing # {} /\ data[1].post_id \in existing
            THEN [st EXCEPT !.existing_found_count = @ + 1]
            ELSE [st EXCEPT !.new_posts = Append(@, data[1]),
                            !.seen_post_ids = @ \cup {data[1].post_id},
                            !.now = @ + 1]
       ELSE st

RECURSIVE extract_loop(_, _, _)
extract_loop(st, post_elements, existing) ==
    IF post_elements = <<>> THEN st
    ELSE extract_loop(extract_step(st, Head(post_elements), existing),
                      Tail(post_elements), existing)

extract_posts_from_elements(post_elements, seen, existing, t) ==
    extract_loop([new_posts |-> <<>>, existing_found_count |-> 0,
                  seen_post_ids |-> seen, now |-> t],
                 post_elements, existing)

\* ---- persistence ---------------------------------------------------------
\* backups maps the name of a backup file (the second of its strftime suffix)
\* to its content.
\* load_existing_posts: [] when the file is missing or json.load raises
load_existing_posts(file) ==
    IF file.kind = "json" THEN file.data ELSE <<>>

\* How a call of save_posts_to_json can go:
\*   ok           every step succeeds
\*   load_raises  open() or json.load raises in load_existing_posts although
\*                the file holds the archive; caught at line 430, the load
\*                returns [] (left out where [] is what the file holds)
\*   copy_raises  shutil.copy2 raises; nothing catches it inside the function
\*   open_raises  open(output_path, "w") raises; caught at line 486
\*   dump_raises  json.dump raises after open() has truncated the file; caught
\*   killed       the process is terminated inside json.dump
IOErrors(file) ==
    {"open_raises", "dump_raises"}
    \cup (IF file.kind # "missing" THEN {"copy_raises"} ELSE {})
    \cup (IF file.kind = "json" /\ file.data # <<>> THEN {"load_raises"}
          ELSE {})

\* the outcomes in which the call writes the whole document and returns
Completed == {"ok", "load_raises"}

SaveOutcomes(file, n) ==
    {"ok"} \cup (IF n < MaxFaultySaves THEN IOErrors(file) ELSE {})

\* save_posts_to_json(posts, incremental=False): the archive is replaced by
\* the list that is passed
save_posts_to_json_not_incremental(file, bks, s, new_posts, outcome) ==
    LET final_posts == new_posts
        copied == file.kind # "missing" /\ outcome # "copy_raises"
    IN [archive |-> CASE outcome \in Completed -> Document(final_posts)
                      [] outcome \in {"dump_raises", "killed"} -> Torn
                      [] OTHER -> file,
        backups |-> IF copied THEN (s :> file) @@ bks ELSE bks,
        copied |-> copied,
        raised |-> file.kind # "missing" /\ outcome = "copy_raises"]

\* a variant that copies the backup after the archive has been written
save_posts_to_json_backup_after_write(file, bks, s, new_posts, outcome) ==
    LET existing_posts == IF outcome = "load_raises" THEN <<>>
                          ELSE load_existing_posts(file)
        final_posts == merge_posts(existing_posts, new_posts)
        copied == file.kind # "missing" /\ outcome # "copy_raises"
        written == CASE outcome \in Completed -> Document(final_posts)
                     [] outcome \in {"dump_raises", "killed"} -> Torn
                     [] OTHER -> file
    IN [archive |-> written,
        backups |-> IF copied THEN (s :> written) @@ bks ELSE bks,
        copied |-> copied,
        raised |-> file.kind # "missing" /\ outcome = "copy_raises"]

\* save_posts_to_json(posts), incremental, called at second s and going as
\* `outcome` says: the archive and the backups it leaves, whether it made a
\* backup, and whether an exception leaves the function
save_posts_to_json(file, bks, s, new_posts, outcome) ==
    LET existing_posts == IF outcome = "load_raises" THEN <<>>
                          ELSE load_existing_posts(file)
        final_posts == merge_posts(existing_posts, new_posts)
        copied == file.kind # "missing" /\ outcome # "copy_raises"
    IN [archive |-> CASE outcome \in Completed -> Document(final_posts)
                      [] outcome \in {"dump_raises", "killed"} -> Torn
                      [] OTHER -> file,
        backups |-> IF copied THEN (s :> file) @@ bks ELSE bks,
        copied |-> copied,
        raised |-> file.kind # "missing" /\ outcome = "copy_raises"]

\* ---- main() --------------------------------------------------------------
\* records of an archive that the classification stage has gone through
ArchiveRecords ==
    [post_id : Ids, saved_at : 1..MaxArchive, categories : {<<"labelled">>}]

\* archives this program leaves behind: newest first, every record with a
\* saved_at of its own, one record per id
InitArchives ==
    {a \in SeqsUpTo(ArchiveRecords, MaxArchive) :
        /\ \A i \in 1..Len(a) : a[i].saved_at = Len(a) - i + 1
        /\ \A i, j \in 1..Len(a) : i < j => a[i].post_id # a[j].post_id}

Init ==
    /\ mA = <<>>
    /\ mB = <<>>
    /\ mR = <<>>
    /\ mRR = <<>>
    /\ mpc = "idle"
    /\ pc = "start"
    /\ archive \in {NoFile} \cup {Document(a) : a \in InitArchives}
    /\ backups = <<>>
    /\ sec = 0
    /\ now = MaxArchive + 1
    /\ loaded = 0
    /\ visible = {}
    /\ existing_post_ids = {}
    /\ max_scrolls = 0
    /\ scroll_count = 0
    /\ no_new_posts_count = 0
    /\ posts = <<>>
    /\ seen_post_ids = {}
    /\ lastProductive = 0
    /\ quiet = 0
    /\ hitIds = {}
    /\ stopReason = "none"
    /\ saves = 0
    /\ persists = 0
    /\ lastSave = "none"
    /\ checkpointLen = 0
    /\ archive0 = archive
    /\ loadFailed = FALSE
    /\ ioErrors = 0
    /\ run = 1
    /\ feed_len = Len(Feed)
    /\ cpc = "idle"
    /\ all_posts = <<>>
    /\ unclassified_posts = <<>>
    /\ batch_i = 0
    /\ successful_batches = 0
    /\ failed_batches = 0
    /\ hpc = "idle"
    /\ hExisting = <<>>
    /\ labelled = {}
    /\ lastWriter = "none"

loopVars == <<existing_post_ids, max_scrolls, scroll_count, no_new_posts_count,
              posts, seen_post_ids>>
histVars == <<lastProductive, quiet, hitIds, stopReason>>
saveVars == <<saves, persists, lastSave, checkpointLen, archive0,
              loadFailed, ioErrors>>

\* navigate_to_saved_posts returns True
NavigateOk ==
    /\ pc = "start"
    /\ pc' = "navigated"
    /\ UNCHANGED <<otherVars, archive, backups, sec, now, loaded, visible,
                   loopVars, histVars, saveVars>>

\* a variant in which main goes on after a failed navigation
NavigateFailGoesOn ==
    /\ pc = "start"
    /\ pc' = "navigated"
    /\ stopReason' = "navigation"
    /\ UNCHANGED <<otherVars, archive, backups, sec, now, loaded, visible,
                   loopVars, lastProductive, quiet, hitIds, saveVars>>

\* navigate_to_saved_posts returns False: sys.exit(1)
NavigateFail ==
    /\ pc = "start"
    /\ pc' = "exit"
    /\ stopReason' = "navigation"
    /\ UNCHANGED <<otherVars, archive, backups, sec, now, loaded, visible,
                   loopVars, lastProductive, quiet, hitIds, saveVars>>

\* main, lines 520-521, and the head of scroll_and_extract_posts up to the loop
LoadExisting ==
    /\ pc = "navigated"
    /\ existing_post_ids' = IdsOf(load_existing_posts(archive))
    /\ max_scrolls' = IF existing_post_ids' # {} THEN smart_mode_max
                      ELSE full_mode_max
    /\ posts' = <<>>
    /\ seen_post_ids' = {}
    /\ no_new_posts_count' = 0
    /\ scroll_count' = 0
    /\ pc' = "scrolling"
    /\ UNCHANGED <<otherVars, archive, backups, sec, now, loaded, visible,
                   histVars, saveVars>>

SmartMode == existing_post_ids # {}

\* the next value of no_new_posts_count, lines 397-403
NextNoNewCountNeverReset(count, current_batch_count) ==
    count + 1

NextNoNewCount(count, current_batch_count) ==
    IF current_batch_count = 0 THEN count + 1 ELSE 0

\* the for loop runs while scroll_count is in range(max_scrolls)
InRangeOffByOne(count, max) == count <= max

InRange(count, max) == count < max

\* `if not post_elements: break`, line 381
NoContainersIgnored(post_elements) == FALSE

NoContainers(post_elements) == post_elements = <<>>

\* the break of lines 397-401; existing_found_count plays no part in it
LimitReachedOrExisting(current_batch_count, count, existing_found_count) ==
    \/ current_batch_count = 0 /\ count >= no_new_posts_limit
    \/ existing_found_count > 0

LimitReached(current_batch_count, count, existing_found_count) ==
    current_batch_count = 0 /\ count >= no_new_posts_limit

\* `(scroll_count + 1) % save_interval == 0`, line 410
IsCheckpointRoundZeroBased(count) == count % save_interval = 0

IsCheckpointRound(count) == (count + 1) % save_interval = 0

\* What the page can hold in a round: it has rendered the feed up to n
\* containers (n >= loaded); the document holds a window w..n of them (the
\* page drops containers from the top as it scrolls) that includes those
\* rendered in this round, and page furniture that matches the container
\* selector as well when `furniture` is set (it is filtered out, so the
\* choice is left open only for an empty document).  After MaxActive rounds
\* the document stays as it is or, until round MaxEventRound, loses every
\* post container.
PageViews ==
    IF scroll_count < MaxActive
    THEN {v \in {[n |-> n, vis |-> w..n, furniture |-> f] :
                    n \in loaded..feed_len, w \in 1..(loaded + 1),
                    f \in BOOLEAN} :
             v.vis # {} => v.furniture}
    ELSE {[n |-> loaded, vis |-> visible, furniture |-> TRUE]}
         \cup (IF scroll_count < MaxEventRound
               THEN {[n |-> loaded, vis |-> {}, furniture |-> TRUE]}
               ELSE {})

ElementsOf(v) ==
    SelectSeq(Feed, LAMBDA e : \E i \in v.vis : Feed[i] = e)
    \o (IF v.furniture THEN <<Chrome>> ELSE <<>>)

\* one iteration of the for loop of scroll_and_extract_posts, on the
\* containers the page holds in this round; a mid-run save goes as `o` says
Round ==
    /\ pc = "scrolling"
    /\ InRange(scroll_count, max_scrolls)
    /\ \E v \in PageViews :
        LET post_elements == collect_post_elements_on_page(ElementsOf(v))
            r == extract_posts_from_elements(post_elements, seen_post_ids,
                                             existing_post_ids, now)
            current_batch_count == Len(r.new_posts)
            count == NextNoNewCount(no_new_posts_count, current_batch_count)
            stop == LimitReached(current_batch_count, count,
                                 r.existing_found_count)
        IN IF NoContainers(post_elements)
           THEN /\ pc' = "returned"
                /\ stopReason' = "no_elements"
                /\ scroll_count' = scroll_count + 1
                /\ UNCHANGED <<archive, backups, sec, now, loaded, visible,
                               existing_post_ids, max_scrolls,
                               no_new_posts_count, posts, seen_post_ids,
                               lastProductive, quiet, hitIds, saveVars>>
           ELSE /\ posts' = posts \o r.new_posts
                /\ seen_post_ids' = r.seen_post_ids
                /\ now' = r.now
                /\ no_new_posts_count' = count
                /\ scroll_count' = scroll_count + 1
                /\ IF stop
                   THEN /\ pc' = "returned"
                        /\ stopReason' = "no_new_limit"
                        /\ UNCHANGED <<archive, backups, sec, saveVars>>
                   ELSE /\ sec' = sec + 1
                        /\ IF IsCheckpointRound(scroll_count)
                           THEN \E o \in SaveOutcomes(archive, saves)
                                           \cup {"killed"} :
                                  LET saved == save_posts_to_json(
                                                   archive, backups, sec + 1,
                                                   posts \o r.new_posts, o)
                                  IN /\ archive' = saved.archive
                                     /\ backups' = saved.backups
                                     /\ saves' = saves + 1
                                     /\ persists' = IF saved.copied
                                                    THEN persists + 1
                                                    ELSE persists
                                     /\ lastSave' = o
                                     /\ loadFailed' = (\/ loadFailed
                                                       \/ archive.kind = "torn"
                                                       \/ o = "load_raises")
                                     /\ ioErrors' = IF o = "ok" THEN ioErrors
                                                    ELSE ioErrors + 1
                                     /\ UNCHANGED archive0
                                     /\ checkpointLen' =
                                            IF o \in Completed
                                            THEN Len(posts \o r.new_posts)
                                            ELSE checkpointLen
                                     /\ IF o = "killed"
                                        THEN /\ pc' = "killed"
                                             /\ UNCHANGED stopReason
                                        ELSE IF saved.raised
                                        THEN /\ pc' = "exit"
                                             /\ stopReason' = "exception"
                                        ELSE IF InRange(scroll_count + 1,
                                                        max_scrolls)
                                        THEN /\ pc' = "scrolling"
                                             /\ UNCHANGED stopReason
                                        ELSE /\ pc' = "returned"
                                             /\ stopReason' = "max_scrolls"
                           ELSE /\ UNCHANGED <<archive, backups, saveVars>>
                                /\ IF InRange(scroll_count + 1, max_scrolls)
                                   THEN /\ pc' = "scrolling"
                                        /\ UNCHANGED stopReason
                                   ELSE /\ pc' = "returned"
                                        /\ stopReason' = "max_scrolls"
                /\ loaded' = v.n
                /\ visible' = v.vis
                /\ lastProductive' =
                       IF Len(posts') > Len(posts) THEN scroll_count + 1
                       ELSE lastProductive
                /\ quiet' = IF v.n > loaded THEN 0
                            ELSE IF quiet <= no_new_posts_limit
                                 THEN quiet + 1 ELSE quiet
                /\ hitIds' = hitIds \cup
                       {e.id : e \in {x \in Range(post_elements) :
                           /\ x.kind = "link"
                           /\ x.id \notin seen_post_ids
                           /\ SmartMode
                           /\ x.id \in existing_post_ids}}
                /\ UNCHANGED <<existing_post_ids, max_scrolls>>
    /\ UNCHANGED otherVars

\* the process is terminated between two rounds (before the first mid-run
\* save a termination leaves the files as the run found them)
Kill ==
    /\ pc = "scrolling"
    /\ saves >= 1
    /\ scroll_count <= MaxEventRound
    /\ pc' = "killed"
    /\ UNCHANGED <<otherVars, archive, backups, sec, now, loaded, visible,
                   loopVars, histVars, saveVars>>

\* The final save comes right after the loop: in the second of the latest
\* mid-run save when that save closed the last round, or later.
FinalSeconds ==
    IF sec \in DOMAIN backups THEN {sec, sec + 1} ELSE {sec + 1}

\* main, lines 526-530: the final save of a non-empty harvest.  An exception
\* of the save is caught by main's handler at line 532.
FinalSave ==
    /\ pc = "returned"
    /\ pc' = "exit"
    /\ IF posts # <<>>
       THEN \E s \in FinalSeconds, o \in SaveOutcomes(archive, saves) :
              LET saved == save_posts_to_json(archive, backups, s, posts, o)
              IN /\ archive' = saved.archive
                 /\ backups' = saved.backups
                 /\ sec' = s
                 /\ saves' = saves + 1
                 /\ persists' = IF saved.copied THEN persists + 1
                                ELSE persists
                 /\ lastSave' = o
                 /\ loadFailed' = (\/ loadFailed
                                   \/ archive.kind = "torn"
                                   \/ o = "load_raises")
                 /\ ioErrors' = IF o = "ok" THEN ioErrors ELSE ioErrors + 1
                 /\ UNCHANGED <<checkpointLen, archive0>>
       ELSE UNCHANGED <<archive, backups, sec, saveVars>>
    /\ UNCHANGED <<otherVars, now, loaded, visible, loopVars, histVars>>

\* A second run of main() over the archive file the first run left, on a feed
\* of permalinked posts that has not changed: the first run ended by itself,
\* each of its saves went through, the page rendered permalinked posts only,
\* and in the second run it renders no container beyond those.  The backup
\* files of the first run are set aside.
RunAgain ==
    /\ pc = "exit"
    /\ run = 1
    /\ stopReason \notin {"navigation", "exception"}
    /\ ioErrors = 0
    /\ \A i \in 1..loaded : Feed[i].kind = "link"
    /\ run' = 2
    /\ feed_len' = loaded
    /\ pc' = "start"
    /\ backups' = <<>>
    /\ sec' = 0
    /\ loaded' = 0
    /\ visible' = {}
    /\ existing_post_ids' = {}
    /\ max_scrolls' = 0
    /\ scroll_count' = 0
    /\ no_new_posts_count' = 0
    /\ posts' = <<>>
    /\ seen_post_ids' = {}
    /\ lastProductive' = 0
    /\ quiet' = 0
    /\ hitIds' = {}
    /\ stopReason' = "none"
    /\ saves' = 0
    /\ persists' = 0
    /\ lastSave' = "none"
    /\ checkpointLen' = 0
    /\ archive0' = archive
    /\ loadFailed' = FALSE
    /\ UNCHANGED <<mergeVars, classifyVars, archive, now, ioErrors>>

Next ==
    \/ NavigateOk
    \/ NavigateFail
    \/ LoadExisting
    \/ Round
    \/ Kill
    \/ FinalSave
    \/ RunAgain

Spec == Init /\ [][Next]_vars

\* ---- scripts/classify.py -------------------------------------------------
\* what the classification service returns for a post
NewCategories == <<"new">>
NewKeywords == <<"kw">>

\* a post of the archive: not yet classified, or classified by an earlier run
Post(id, n, done) ==
    [post_id |-> id, saved_at |-> n - id + 1,
     categories |-> IF done THEN <<"old">> ELSE <<>>,
     keywords |-> IF done THEN <<"old">> ELSE <<>>]

\* archives of n posts, newest first; each of the posts 1..MaxLabelled is
\* classified or not, the others are not
ClassifyArchives ==
    {[i \in 1..n |-> Post(i, n, i \in L)] :
        n \in 0..MaxPosts, L \in SUBSET (1..MaxLabelled)}

\* the record a harvest run saves while the classification is going on
harvested ==
    <<[post_id |-> MaxPosts + 1, saved_at |-> MaxPosts + 1,
       categories |-> <<>>, keywords |-> <<>>]>>

\* load_all_posts: [] when the file is missing or cannot be read
load_all_posts(file) ==
    IF file.kind = "json" THEN file.data ELSE <<>>

\* get_unclassified_posts: the posts without categories (None when empty)
get_unclassified_posts(all) ==
    SelectSeq(all, LAMBDA p : p.categories = <<>>)

\* a variant of save_progress that reads the file again and keeps the records
\* it holds that the list in memory does not have
save_progress_merging(file, ps, outcome) ==
    CASE outcome = "ok" -> Document(merge_posts(ps, load_all_posts(file)))
      [] outcome = "open_raises" -> file
      [] OTHER -> Torn

\* save_progress(posts): open(posts_path, "w") and json.dump of the list in
\* memory; an exception is caught and printed
save_progress(file, ps, outcome) ==
    CASE outcome = "ok" -> Document(ps)
      [] outcome = "open_raises" -> file
      [] OTHER -> Torn

\* how a call of save_progress can go: the first MaxFaultySaves calls of a
\* run can meet an I/O error; the process can be terminated inside json.dump
ProgressOutcomes(n) ==
    {"ok", "killed"}
    \cup (IF n < MaxFaultySaves THEN {"open_raises", "dump_raises"} ELSE {})

\* classify_batch: the list of classifications of the response; [] when the
\* request or the parsing of the response raises.  A response can leave out a
\* post of the batch.
Responses == {"full", "partial", "failed"}

classify_batch(batch, resp) ==
    LET answered == CASE resp = "full" -> batch
                      [] resp = "partial" -> Tail(batch)
                      [] OTHER -> <<>>
    IN [k \in 1..Len(answered) |->
           [post_id |-> answered[k].post_id,
            categories |-> NewCategories,
            keywords |-> NewKeywords]]

\* unclassified_posts[i:i + batch_size]
BatchAt(ps, i) ==
    SubSeq(ps, i + 1, IF i + batch_size <= Len(ps) THEN i + batch_size
                      ELSE Len(ps))

\* the update of all_posts from classification_dict, lines 105-111
ApplyClassifications(all, classifications) ==
    [k \in 1..Len(all) |->
        IF all[k].post_id \in IdsOf(classifications)
        THEN [all[k] EXCEPT !.categories = NewCategories,
                            !.keywords = NewKeywords]
        ELSE all[k]]

ClassifyInit ==
    /\ mA = <<>>
    /\ mB = <<>>
    /\ mR = <<>>
    /\ mRR = <<>>
    /\ mpc = "idle"
    /\ pc = "idle"
    /\ archive \in {NoFile} \cup {Document(a) : a \in ClassifyArchives}
    /\ backups = <<>>
    /\ sec = 0
    /\ now = 0
    /\ loaded = 0
    /\ visible = {}
    /\ existing_post_ids = {}
    /\ max_scrolls = 0
    /\ scroll_count = 0
    /\ no_new_posts_count = 0
    /\ posts = <<>>
    /\ seen_post_ids = {}
    /\ lastProductive = 0
    /\ quiet = 0
    /\ hitIds = {}
    /\ stopReason = "none"
    /\ saves = 0
    /\ persists = 0
    /\ lastSave = "none"
    /\ checkpointLen = 0
    /\ archive0 = archive
    /\ loadFailed = FALSE
    /\ ioErrors = 0
    /\ run = 1
    /\ feed_len = 0
    /\ cpc = "start"
    /\ all_posts = <<>>
    /\ unclassified_posts = <<>>
    /\ batch_i = 0
    /\ successful_batches = 0
    /\ failed_batches = 0
    /\ hpc = "idle"
    /\ hExisting = <<>>
    /\ labelled = {}
    /\ lastWriter = "none"

\* what no step of the classification stage or of the harvest save changes
classifyIdleVars == <<mergeVars, pc, now, loaded, visible, loopVars, histVars,
                      saves, persists, lastSave, checkpointLen, archive0,
                      loadFailed, ioErrors, feed_len>>

\* classify_posts up to the call of process_batches: the archive is loaded,
\* the posts without categories are selected, the user confirms or declines
ClassifyStart ==
    /\ cpc = "start"
    /\ all_posts' = load_all_posts(archive)
    /\ unclassified_posts' = get_unclassified_posts(all_posts')
    /\ \E confirmed \in BOOLEAN :
           cpc' = IF unclassified_posts' # <<>> /\ confirmed THEN "batch"
                  ELSE "done"
    /\ batch_i' = 0
    /\ successful_batches' = 0
    /\ failed_batches' = 0
    /\ UNCHANGED <<classifyIdleVars, archive, backups, sec, run, hpc,
                   hExisting, labelled, lastWriter>>

\* one iteration of the for loop of process_batches: the request, and for a
\* non-empty list of classifications the update of all_posts, the count and
\* save_progress, which goes as `o` says
ProcessBatch ==
    /\ cpc = "batch"
    /\ \E resp \in Responses :
        LET batch == BatchAt(unclassified_posts, batch_i)
            classifications == classify_batch(batch, resp)
            more == batch_i + batch_size < Len(unclassified_posts)
        IN IF classifications # <<>>
           THEN \E o \in ProgressOutcomes(successful_batches) :
                  /\ all_posts' = ApplyClassifications(all_posts,
                                                       classifications)
                  /\ successful_batches' = successful_batches + 1
                  /\ archive' = save_progress(archive, all_posts', o)
                  /\ labelled' = labelled \cup IdsOf(classifications)
                  /\ lastWriter' = IF o = "open_raises" THEN lastWriter
                                   ELSE "classify"
                  /\ cpc' = IF o = "killed" THEN "killed"
                            ELSE IF more THEN "batch" ELSE "done"
                  /\ UNCHANGED failed_batches
           ELSE /\ failed_batches' = failed_batches + 1
                /\ cpc' = IF more THEN "batch" ELSE "done"
                /\ UNCHANGED <<all_posts, successful_batches, archive,
                               labelled, lastWriter>>
    /\ batch_i' = batch_i + batch_size
    /\ UNCHANGED <<classifyIdleVars, backups, sec, run, unclassified_posts,
                   hpc, hExisting>>

\* the process is interrupted between two batches or inside a request
ClassifyKill ==
    /\ cpc = "batch"
    /\ cpc' = "killed"
    /\ UNCHANGED <<classifyIdleVars, archive, backups, sec, run, all_posts,
                   unclassified_posts, batch_i, successful_batches,
                   failed_batches, hpc, hExisting, labelled, lastWriter>>

\* classify.py is run again after a run that ended or was interrupted
ClassifyAgain ==
    /\ cpc \in {"done", "killed"}
    /\ run = 1
    /\ run' = 2
    /\ cpc' = "start"
    /\ all_posts' = <<>>
    /\ unclassified_posts' = <<>>
    /\ batch_i' = 0
    /\ successful_batches' = 0
    /\ failed_batches' = 0
    /\ labelled' = {}
    /\ UNCHANGED <<classifyIdleVars, archive, backups, sec, hpc, hExisting,
                   lastWriter>>

\* save_posts_to_json of a harvest run, line 468: the archive is loaded
HarvestLoad ==
    /\ hpc = "idle"
    /\ run = 1
    /\ hExisting' = load_existing_posts(archive)
    /\ hpc' = "loaded"
    /\ UNCHANGED <<classifyIdleVars, archive, backups, sec, run, cpc,
                   all_posts, unclassified_posts, batch_i, successful_batches,
                   failed_batches, labelled, lastWriter>>

\* save_posts_to_json of a harvest run, lines 470-487: the merge with what was
\* loaded, the backup of the file as it is now, the write
HarvestWrite ==
    /\ hpc = "loaded"
    /\ archive' = Document(merge_posts(hExisting, harvested))
    /\ backups' = IF archive.kind # "missing"
                  THEN ((sec + 1) :> archive) @@ backups
                  ELSE backups
    /\ sec' = sec + 1
    /\ hpc' = "done"
    /\ lastWriter' = "harvest"
    /\ UNCHANGED <<classifyIdleVars, run, cpc, all_posts, unclassified_posts,
                   batch_i, successful_batches, failed_batches, hExisting,
                   labelled>>

ClassifyNext ==
    \/ ClassifyStart
    \/ ProcessBatch
    \/ ClassifyKill
    \/ ClassifyAgain
    \/ HarvestLoad
    \/ HarvestWrite

SpecClassify == ClassifyInit /\ [][ClassifyNext]_vars

\* ---- properties of the harvest loop --------------------------------------
InLoop == pc \in {"scrolling", "returned", "exit"} /\ stopReason # "navigation"

Ceiling == IF SmartMode THEN smart_mode_max ELSE full_mode_max

\* C6: scroll_and_extract_posts always terminates, whatever the page shows,
\* within 50 rounds in smart mode and 100 in full mode: every step of the loop
\* either ends it (it returns, an exception leaves it, the process is
\* terminated) or is one more round, the number of rounds never exceeds the
\* ceiling, and at the ceiling the loop has ended.
C6_TerminatesWithinCeiling ==
    [][pc = "scrolling" =>
          /\ scroll_count' \in {scroll_count, scroll_count + 1}
          /\ scroll_count' <= Ceiling
          /\ pc' \in {"scrolling", "returned", "exit", "killed"}
          /\ pc' = "scrolling" =>
                 /\ scroll_count' = scroll_count + 1
                 /\ scroll_count' < Ceiling]_vars

C6_Witness ==
    /\ pc = "returned"
    /\ ~SmartMode
    /\ stopReason = "max_scrolls"
    /\ scroll_count = full_mode_max
    /\ Len(posts) >= full_mode_max

\* C7 (as claimed): in full mode, once the feed has stopped producing new
\* containers (containers are still found, none is new), the loop does not run
\* past round K + no_new_posts_limit, K being the last round with a new
\* container: no round starts after no_new_posts_limit rounds without one.
C7_StopsAtKPlusLimit ==
    (pc = "scrolling" /\ ~SmartMode) => quiet < no_new_posts_limit

\* C8: after every round that reaches the bookkeeping, no_new_posts_count is
\* the number of rounds since the last one that appended a post (a round
\* without containers ends the loop before the bookkeeping).
C8_CounterIsEmptyRun ==
    (InLoop /\ stopReason # "no_elements") =>
        no_new_posts_count = scroll_count - lastProductive

C8_Witness ==
    /\ pc = "scrolling"
    /\ scroll_count = 5
    /\ lastProductive = 4
    /\ Len(posts) = 1
    /\ no_new_posts_count = 1

\* C9: in smart mode no record whose post_id is in the supplied existing-id
\* set is ever in the output accumulator.
C9_NoExistingIdAppended ==
    (InLoop /\ SmartMode) =>
        \A i \in 1..Len(posts) : posts[i].post_id \notin existing_post_ids

C9_Witness ==
    /\ SmartMode
    /\ hitIds # {}
    /\ \E i \in 1..Len(posts) : posts[i].post_id > 0

\* C10 (as claimed): in smart mode the id of every record classified as an
\* existing-hit is in the in-run seen-set from then on.
C10_HitIsSeen ==
    InLoop => hitIds \subseteq seen_post_ids

\* every container rendered so far is a permalinked post of the archive
OnlyArchivedShown ==
    /\ loaded >= 1
    /\ \A i \in 1..loaded :
           Feed[i].kind = "link" /\ Feed[i].id \in existing_post_ids

\* C11: an existing-hit never stops the loop by itself.  When the loop has
\* stopped, the empty-round counter has reached no_new_posts_limit, or the
\* round ceiling is reached, or a round found no containers; and a smart-mode
\* run that is not cut short from outside (termination, an exception of a
\* save) and whose every round shows only archived posts runs exactly
\* no_new_posts_limit rounds.
C11_HitDoesNotStopLoop ==
    /\ pc = "returned" =>
           \/ /\ stopReason = "no_new_limit"
              /\ no_new_posts_count >= no_new_posts_limit
           \/ /\ stopReason = "max_scrolls"
              /\ scroll_count = max_scrolls
           \/ stopReason = "no_elements"
    /\ (/\ SmartMode
        /\ OnlyArchivedShown
        /\ stopReason \notin {"no_elements", "exception"}) =>
           /\ pc = "scrolling" => scroll_count < no_new_posts_limit
           /\ pc \in {"returned", "exit"} =>
                  /\ scroll_count = no_new_posts_limit
                  /\ stopReason = "no_new_limit"

C11_Witness ==
    /\ pc = "returned"
    /\ SmartMode
    /\ OnlyArchivedShown
    /\ hitIds # {}
    /\ posts = <<>>
    /\ stopReason = "no_new_limit"
    /\ scroll_count = no_new_posts_limit

\* C12 (as claimed): when the process is terminated during the harvest loop,
\* the archive file holds every post (by post_id) that was in the output
\* accumulator at the latest completed mid-run save.
C12_CheckpointSurvivesTermination ==
    pc = "killed" =>
        \A i \in 1..checkpointLen :
            /\ archive.kind = "json"
            /\ PostId(posts[i]) \in IdsOf(archive.data)

\* C13: a round whose 1-based index is a multiple of save_interval and that
\* does not stop the loop calls save_posts_to_json on the whole accumulator
\* (when the save goes through, the archive is the merge of the file and the
\* accumulator); the seen-set, the accumulator and the empty-round counter
\* are what the extraction of that round alone made them; and when the save
\* returns, the loop goes on to the next round (or ends at the ceiling).
C13_CheckpointFrame ==
    [][(/\ pc = "scrolling"
        /\ scroll_count' = scroll_count + 1
        /\ scroll_count' % save_interval = 0
        /\ stopReason' \notin {"no_elements", "no_new_limit"}) =>
          /\ saves' = saves + 1
          /\ lastSave' = "ok" =>
                 archive' = Document(merge_posts(load_existing_posts(archive),
                                                 posts'))
          /\ \E v \in PageViews :
                 LET r == extract_posts_from_elements(
                              collect_post_elements_on_page(ElementsOf(v)),
                              seen_post_ids, existing_post_ids, now)
                 IN /\ posts' = posts \o r.new_posts
                    /\ seen_post_ids' = r.seen_post_ids
                    /\ no_new_posts_count' =
                           IF r.new_posts = <<>> THEN no_new_posts_count + 1
                           ELSE 0
          /\ lastSave' \notin {"killed", "copy_raises"} =>
                 pc' = IF scroll_count' < max_scrolls THEN "scrolling"
                       ELSE "returned"]_vars

C13_Witness ==
    /\ pc = "scrolling"
    /\ scroll_count = save_interval
    /\ saves = 1
    /\ lastSave = "ok"
    /\ posts # <<>>
    /\ no_new_posts_count > 0
    /\ seen_post_ids = IdsOf(posts)
    /\ archive.kind = "json"
    /\ IdsOf(posts) \subseteq IdsOf(archive.data)

\* C14: every incremental save made while the archive file exists copies it to
\* the backup before the archive is opened for writing: unless the copy itself
\* raises, the backup of this save holds what the archive held before the
\* save, also when open() or json.dump() then fails and whatever the archive
\* holds afterwards.
C14_BackupBeforeWrite ==
    [][(/\ saves' = saves + 1
        /\ archive.kind # "missing"
        /\ lastSave' # "copy_raises") =>
          /\ persists' = persists + 1
          /\ sec' \in DOMAIN backups'
          /\ backups'[sec'] = archive]_vars

C14_Witness ==
    /\ lastSave = "ok"
    /\ sec \in DOMAIN backups
    /\ backups[sec].kind = "json"
    /\ archive.kind = "json"
    /\ Len(backups[sec].data) >= 1
    /\ Len(archive.data) > Len(backups[sec].data)

\* C15 (as claimed): every persist operation made while a prior archive
\* exists leaves a backup file of its own: after n of them there are n
\* backups, none overwritten by a later save.
C15_OneBackupPerPersist ==
    Cardinality(DOMAIN backups) = persists

\* C16 (as claimed): after a call of save_posts_to_json on an existing
\* archive, whether it succeeds or fails inside the write, the archive file
\* holds the complete prior archive or the complete merged archive.
C16_WriteIsAtomic ==
    [][(/\ saves' = saves + 1
        /\ lastSave' # "killed"
        /\ archive.kind = "json") =>
          \/ archive' = archive
          \/ archive' = Document(merge_posts(load_existing_posts(archive),
                                             posts'))]_vars

\* C17 (as claimed): when the copy of the backup or the write of the archive
\* fails in a save, mid-run or final, the accumulator of the run is kept and
\* reaches the caller of the loop: no such failure ends the loop with an
\* exception.
C17_FailureKeepsAccumulator ==
    lastSave \in {"copy_raises", "open_raises", "dump_raises"} =>
        stopReason # "exception"

\* C18: a round in which the container query yields no post container stops
\* the loop in that round, without extracting, scrolling, waiting or saving,
\* and the loop returns the accumulator of the earlier rounds; every round
\* that goes past the check had a post container in the document.
C18_NoContainersStops ==
    [][(pc = "scrolling" /\ scroll_count' = scroll_count + 1) =>
          IF stopReason' = "no_elements"
          THEN /\ pc' = "returned"
               /\ UNCHANGED <<posts, seen_post_ids, no_new_posts_count, now,
                              sec, archive, backups, saves>>
          ELSE visible' # {}]_vars

C18_Witness ==
    /\ pc = "returned"
    /\ stopReason = "no_elements"
    /\ scroll_count = save_interval
    /\ posts # <<>>
    /\ saves = 0

\* C19 (as claimed): what the loop returns after a stop for lack of
\* containers tells the caller that it was not normal exhaustion.  The loop
\* returns the accumulator and nothing else, and an exhausted run can return
\* the empty list (C11_Witness): a stop for lack of containers never returns
\* the empty list.
C19_NoContainersDistinguishable ==
    (pc = "returned" /\ stopReason = "no_elements") => posts # <<>>

\* C20 (as claimed): every record that the archive held before the run,
\* the labels of the classification stage included, is in the archive with
\* all fields unchanged after any sequence of mid-run saves and the final
\* save, provided every save could read the archive file.
C20_ArchiveRecordsUnchanged ==
    (/\ pc \in {"scrolling", "returned", "exit"}
     /\ saves >= 1
     /\ ~loadFailed) =>
        \A r \in Range(load_existing_posts(archive0)) :
            /\ archive.kind = "json"
            /\ Count(archive.data, r) = Count(archive0.data, r)

\* C22: when navigate_to_saved_posts fails, the run ends at once: no round of
\* the loop, no load of the archive, no save; the archive file is the one the
\* run started from and there is no backup.
C22_NavigationFailureTouchesNothing ==
    stopReason = "navigation" =>
        /\ pc = "exit"
        /\ scroll_count = 0
        /\ max_scrolls = 0
        /\ existing_post_ids = {}
        /\ posts = <<>>
        /\ saves = 0
        /\ archive = archive0
        /\ backups = <<>>

C22_Witness ==
    /\ pc = "exit"
    /\ stopReason = "navigation"
    /\ archive.kind = "json"
    /\ archive.data # <<>>

\* C26 (as claimed): a container that stays in the document over several
\* rounds puts at most one record into the output accumulator in a run: no
\* permalink id is there twice, and the one container of the feed without a
\* permalink, whose ids are synthesised, has at most one record there.
C26_OneRecordPerContainer ==
    InLoop =>
        /\ \A id \in Ids :
               Cardinality({i \in 1..Len(posts) : posts[i].post_id = id}) <= 1
        /\ Cardinality({i \in 1..Len(posts) : posts[i].post_id < 0}) <= 1

\* C27: at every round boundary the output accumulator holds no two records
\* with the same post_id and every post_id of it is in the seen-set; and in
\* no step of the loop does the accumulator lose or change a record or the
\* seen-set lose an id.
C27_AccumulatorAndSeenSet ==
    /\ [](InLoop => /\ ~HasDuplicateIds(posts)
                    /\ IdsOf(posts) \subseteq seen_post_ids)
    /\ [][pc = "scrolling" =>
             /\ Len(posts') >= Len(posts)
             /\ SubSeq(posts', 1, Len(posts)) = posts
             /\ seen_post_ids \subseteq seen_post_ids']_vars

C27_Witness ==
    /\ pc = "scrolling"
    /\ scroll_count >= 3
    /\ Len(posts) >= 2
    /\ \E i \in 1..Len(posts) : posts[i].post_id > 0
    /\ \E i \in 1..Len(posts) : posts[i].post_id < 0
    /\ hitIds # {}
    /\ seen_post_ids = IdsOf(posts)

\* C25 (as claimed): after a call of save_posts_to_json that completes, the
\* archive holds every post_id it held before the call, also when the load of
\* the archive file failed inside the call.
C25_SaveKeepsArchivedIds ==
    [][(saves' = saves + 1 /\ lastSave' \in Completed) =>
          /\ archive'.kind = "json"
          /\ IdsOf(archive.data) \subseteq IdsOf(archive'.data)]_vars

\* C28: when a run has ended and each of its saves went through, the archive
\* left by the mid-run saves and the final save holds the records of a single
\* merge of the archive the run started from with the final accumulator, each
\* as many times: a post written by a mid-run save is neither duplicated nor
\* replaced by a later save of the same accumulator.
C28_CheckpointsEqualSingleMerge ==
    (pc = "exit" /\ saves >= 1 /\ ioErrors = 0) =>
        LET single == merge_posts(load_existing_posts(archive0), posts)
        IN /\ archive.kind = "json"
           /\ \A r \in Range(single) \cup Range(archive.data) :
                  Count(archive.data, r) = Count(single, r)

C28_Witness ==
    /\ pc = "exit"
    /\ ioErrors = 0
    /\ saves >= 3
    /\ lastSave = "ok"
    /\ checkpointLen >= save_interval
    /\ Len(posts) >= 2 * save_interval
    /\ posts[1].post_id > 0
    /\ load_existing_posts(archive0) # <<>>

\* C21: a second run over an unchanged feed of permalinked posts, after a
\* first run that ended by itself, leaves the archive as the first run left
\* it, record for record in the same order: at every point of the second run
\* up to which its saves went through, and at its end.
C21_SecondRunLeavesArchive ==
    (run = 2 /\ ioErrors = 0) => archive = archive0

C21_Witness ==
    /\ run = 2
    /\ pc = "exit"
    /\ ioErrors = 0
    /\ saves >= 1
    /\ stopReason = "no_new_limit"
    /\ Cardinality(hitIds) >= 2
    /\ Len(archive.data) >= 2
    /\ \E i \in 1..Len(archive.data) : archive.data[i].categories = <<>>
    /\ \E i \in 1..Len(archive.data) : archive.data[i].categories # <<>>

\* ---- properties of the classification stage -----------------------------
HasLabels(file, id) ==
    /\ file.kind = "json"
    /\ \E k \in 1..Len(file.data) :
           /\ file.data[k].post_id = id
           /\ file.data[k].categories = NewCategories
           /\ file.data[k].keywords = NewKeywords

\* C23 (as claimed): wherever classify.py is interrupted, with no other
\* writer of the archive at work, the archive file holds the categories and
\* keywords of every batch counted as successful so far; and a run selects
\* for classification exactly the posts of the archive whose categories are
\* empty.
C23_ClassificationResumable ==
    /\ (hpc = "idle" /\ cpc \in {"batch", "done", "killed"}) =>
           \A id \in labelled : HasLabels(archive, id)
    /\ (hpc = "idle" /\ cpc = "batch" /\ batch_i = 0) =>
           /\ all_posts = load_all_posts(archive)
           /\ unclassified_posts =
                  SelectSeq(all_posts, LAMBDA p : p.categories = <<>>)

\* C24: neither writer looks at the file again before it writes, and nothing
\* keeps the other from writing in between.  What a save_progress writes is
\* the list classify.py loaded, with its labels, and no record beyond it: a
\* record that a harvest save persisted after that load is gone.  What a
\* harvest save writes is the merge of what it loaded with its batch: the
\* labels that save_progress persisted after that load are gone.
C24_LastWriterWins ==
    /\ [][(/\ successful_batches' = successful_batches + 1
           /\ archive' # archive
           /\ archive'.kind = "json") =>
             /\ archive'.data = all_posts'
             /\ IdsOf(archive'.data) = IdsOf(all_posts)]_vars
    /\ [][(hpc = "loaded" /\ hpc' = "done") =>
             archive' = Document(merge_posts(hExisting, harvested))]_vars

C24_Witness ==
    /\ hpc = "done"
    /\ lastWriter = "classify"
    /\ archive.kind = "json"
    /\ labelled # {}
    /\ \A id \in labelled : HasLabels(archive, id)
    /\ PostId(harvested[1]) \notin IdsOf(archive.data)
    /\ \E s \in DOMAIN backups : backups[s].kind = "json"

====
